---- MODULE Spec2Model ----
(***************************************************************************)
(* A model of numeric::Tensor (src/src/tensor/mod.rs): the flat buffer and *)
(* shape of a tensor, its constructors, and the shape / stride / slicing / *)
(* reshaping / axis-permutation code.                                      *)
(*                                                                         *)
(* Machine integers.  A usize value is written as its residue modulo 2^64  *)
(* of smallest magnitude: a value x >= 0 stands for x, a value x < 0       *)
(* stands for 2^64 + x (what `(-2isize) as usize` is).  Wrapping +, - and  *)
(* * on usize are then the integer +, - and * on these residues, and the   *)
(* `as isize` / `as usize` casts are the identity on them.  Comparison,    *)
(* division and buffer indexing use the unsigned value (ULt, UDiv, UMod).  *)
(* Every value the model handles is within a few hundred of 0 or of 2^64.  *)
(*                                                                         *)
(* Build profile.  With overflow checks (cargo's dev profile) an           *)
(* arithmetic overflow panics; without them (cargo's release profile) it   *)
(* wraps.  Each function below computes the wrapped result and, beside it, *)
(* `dbg`: whether some operation overflowed on the way (or a               *)
(* debug_assert! failed).  A call fails when it panics in every build      *)
(* (ok = FALSE) or, in a debug build, when dbg holds.                      *)
(***************************************************************************)
EXTENDS Integers, Sequences, FiniteSets, TLC

VARIABLES debug_build, t, last

vars == <<debug_build, t, last>>

---------------------------------------------------------------------------
(* Bounds of the model. *)

\* Largest axis length given to filled / zeros / ones / reshaped.
MaxDim == 2
\* Largest rank of a shape given to filled / zeros / ones / reshaped, and of
\* a slice's result.
MaxRank == 2
\* Largest size given to range.
MaxRange == 7
\* Largest size given to eye.
MaxEye == 2
\* Largest length of the vector given to new.
MaxNew == 2
\* Largest element value given to new / filled.
MaxElem == 1
\* Signed indices given to Index / Slice / SliceFrom / SliceTo lie in
\* -MaxIdx .. MaxIdx.
MaxIdx == 2
\* Most negative (non-wildcard) entry of a requested shape is -MaxNeg.
MaxNeg == 2
\* Largest flat index given to unravel_index.
MaxFlat == 7
\* A returned tensor is followed further only while its axis lengths stay
\* within MaxAbs of 0 or of 2^64.
MaxAbs == 8

---------------------------------------------------------------------------
(* usize arithmetic on residues *)

\* a < b as unsigned values
ULt(a, b) == IF (a < 0) = (b < 0) THEN a < b ELSE b < 0

\* a <= b as unsigned values
ULe(a, b) == a = b \/ ULt(a, b)

\* a + b exceeds usize::MAX
AddOvf(a, b) == \/ a < 0 /\ b < 0
                \/ (a < 0) # (b < 0) /\ a + b >= 0

\* a - b is below 0
SubOvf(a, b) == ULt(a, b)

\* a * b exceeds usize::MAX
MulOvf(a, b) == a # 0 /\ b # 0 /\ a # 1 /\ b # 1 /\ (a < 0 \/ b < 0)

\* a / b and a % b for a small a >= 0 and b # 0
UDiv(a, b) == IF b < 0 THEN 0 ELSE a \div b

UMod(a, b) == IF b < 0 THEN a ELSE a % b

\* Vec::with_capacity(n) and n pushes succeed
CanAllocate(n) == n >= 0

---------------------------------------------------------------------------
(* Tensor and AxisIndex *)

Tensor(data, shape) == [data |-> data, shape |-> shape]

Full == [kind |-> "Full", a |-> 0, b |-> 0]

Ellipsis == [kind |-> "Ellipsis", a |-> 0, b |-> 0]

NewAxis == [kind |-> "NewAxis", a |-> 0, b |-> 0]

Index(i) == [kind |-> "Index", a |-> i, b |-> 0]

Slice(start, end) == [kind |-> "Slice", a |-> start, b |-> end]

SliceFrom(start) == [kind |-> "SliceFrom", a |-> start, b |-> 0]

SliceTo(end) == [kind |-> "SliceTo", a |-> 0, b |-> end]

\* T::zero() and T::one()
zero == 0

one == 1

\* a panic: no tensor is returned
Panic == [ok |-> FALSE, dbg |-> FALSE, t |-> Tensor(<<>>, <<>>)]

---------------------------------------------------------------------------
(* Shape arithmetic *)

RECURSIVE fold_mul(_, _, _, _)
fold_mul(s, i, acc, dbg) ==
    IF i > Len(s) THEN [val |-> acc, dbg |-> dbg]
    ELSE fold_mul(s, i + 1, acc * s[i], dbg \/ MulOvf(acc, s[i]))

\* shape.iter().fold(1, |acc, &v| acc * v)
shape_product(shape) == fold_mul(shape, 1, 1, FALSE)

size(self) == Len(self.data)

ndim(self) == Len(self.shape)

\* A faulty strides: every stride is 1.
strides_ones(self) ==
    [val |-> [i \in 1 .. Len(self.shape) |-> 1], dbg |-> FALSE]

\* for k in 1..ss.len() { i = ss.len() - 1 - k; ss[i] = ss[i+1] * shape[i+1] }
RECURSIVE strides_loop(_, _, _, _)
strides_loop(shape, k, ss, dbg) ==
    IF k >= Len(shape) THEN [val |-> ss, dbg |-> dbg]
    ELSE LET i == Len(shape) - k
         IN  strides_loop(shape, k + 1,
                          [ss EXCEPT ![i] = ss[i + 1] * shape[i + 1]],
                          dbg \/ MulOvf(ss[i + 1], shape[i + 1]))

strides(self) ==
    strides_loop(self.shape, 1, [i \in 1 .. Len(self.shape) |-> 1], FALSE)

\* for i in 0..ndim { ii.push(c / strides[i]); c %= strides[i]; }
RECURSIVE unravel_loop(_, _, _, _)
unravel_loop(ss, i, c, ii) ==
    IF i > Len(ss) THEN [ok |-> TRUE, val |-> ii]
    ELSE IF ss[i] = 0 THEN [ok |-> FALSE, val |-> <<>>]
    ELSE unravel_loop(ss, i + 1, UMod(c, ss[i]), Append(ii, UDiv(c, ss[i])))

unravel_index(self, index) ==
    LET ss == strides(self)
        r  == unravel_loop(ss.val, 1, index, <<>>)
    IN  [ok |-> r.ok, dbg |-> ss.dbg, val |-> r.val]

\* for i in 0..ndim { index += strides[i] * ii[i]; }
RECURSIVE ravel_loop(_, _, _, _, _)
ravel_loop(ss, ii, i, index, dbg) ==
    IF i > Len(ss) THEN [val |-> index, dbg |-> dbg]
    ELSE ravel_loop(ss, ii, i + 1, index + ss[i] * ii[i],
                    dbg \/ MulOvf(ss[i], ii[i]) \/ AddOvf(index, ss[i] * ii[i]))

ravel_index(self, ii) ==
    IF Len(ii) # ndim(self) THEN [ok |-> FALSE, dbg |-> FALSE, val |-> 0]
    ELSE LET ss == strides(self)
             r  == ravel_loop(ss.val, ii, 1, 0, FALSE)
         IN  [ok |-> TRUE, dbg |-> ss.dbg \/ r.dbg, val |-> r.val]

---------------------------------------------------------------------------
(* Constructors *)

empty == Tensor(<<>>, <<0>>)

new(data) == Tensor(data, <<Len(data)>>)

\* v starts at T::zero() and grows by T::one() per element
range(n) == Tensor([i \in 1 .. n |-> zero + (i - 1) * one], <<n>>)

filled(shape, v) ==
    LET sz == shape_product(shape)
    IN  IF ~CanAllocate(sz.val) THEN Panic
        ELSE [ok |-> TRUE, dbg |-> sz.dbg,
              t |-> Tensor([i \in 1 .. sz.val |-> v], shape)]

zeros(shape) == filled(shape, zero)

ones(shape) == filled(shape, one)

\* self.data[i * self.shape[1] + j] = v
set(self, i, j, v) ==
    [self EXCEPT !.data[i * self.shape[2] + j + 1] = v]

RECURSIVE eye_loop(_, _, _)
eye_loop(tt, k, n) ==
    IF k >= n THEN tt ELSE eye_loop(set(tt, k, k, one), k + 1, n)

eye(n) ==
    LET z == zeros(<<n, n>>)
    IN  [z EXCEPT !.t = eye_loop(z.t, 0, n)]

flatten(self) == Tensor(self.data, <<size(self)>>)

clone(self) == Tensor(self.data, self.shape)

---------------------------------------------------------------------------
(* Reshaping *)

RECURSIVE convert_loop(_, _, _, _, _, _)
convert_loop(shape, i, missing_index, total, sh, dbg) ==
    IF i > Len(shape)
    THEN [ok |-> TRUE, dbg |-> dbg, missing_index |-> missing_index,
          total |-> total, sh |-> sh]
    ELSE IF shape[i] = -1
    THEN IF missing_index # 0
         THEN [ok |-> FALSE, dbg |-> dbg, missing_index |-> missing_index,
               total |-> total, sh |-> sh]
         ELSE convert_loop(shape, i + 1, i, total, Append(sh, 0), dbg)
    ELSE convert_loop(shape, i + 1, missing_index, total * shape[i],
                      Append(sh, shape[i]), dbg \/ MulOvf(total, shape[i]))

\* Converts a shape that allows -1 to one with actual sizes
convert_shape(self, shape) ==
    LET r == convert_loop(shape, 1, 0, 1, <<>>, FALSE)
    IN  IF ~r.ok THEN [ok |-> FALSE, dbg |-> r.dbg, val |-> <<>>]
        ELSE IF r.missing_index = 0
        THEN [ok |-> TRUE, dbg |-> r.dbg, val |-> r.sh]
        ELSE IF r.total = 0 THEN [ok |-> FALSE, dbg |-> r.dbg, val |-> <<>>]
        ELSE [ok |-> TRUE, dbg |-> r.dbg,
              val |-> [r.sh EXCEPT ![r.missing_index] =
                                       UDiv(size(self), r.total)]]

reshaped(self, shape) ==
    LET proper_shape == convert_shape(self, shape)
        s == shape_product(proper_shape.val)
    IN  IF ~proper_shape.ok THEN Panic
        ELSE IF size(self) # s.val THEN Panic
        ELSE [ok |-> TRUE, dbg |-> proper_shape.dbg \/ s.dbg,
              t |-> Tensor(self.data, proper_shape.val)]

---------------------------------------------------------------------------
(* Slicing *)

resolve_axis(self, axis, index) ==
    IF index < 0 THEN self.shape[axis] + index ELSE index

\* Count how many non NewAxis and non Ellipsis
count_nondotted(slices_raw) ==
    Cardinality({i \in 1 .. Len(slices_raw) :
                    slices_raw[i].kind \notin {"NewAxis", "Ellipsis"}})

\* A faulty expand_loop: a second Ellipsis is skipped instead of rejected.
RECURSIVE expand_loop_lenient(_, _, _, _, _, _, _)
expand_loop_lenient(rank, nondotted, slices_raw, i, slices, newaxes, ellipsis_found) ==
    IF i > Len(slices_raw)
    THEN [ok |-> TRUE, slices |-> slices, newaxes |-> newaxes]
    ELSE IF slices_raw[i].kind = "Ellipsis"
    THEN IF ellipsis_found
         THEN expand_loop_lenient(rank, nondotted, slices_raw, i + 1, slices,
                                  newaxes, ellipsis_found)
         ELSE IF rank < nondotted
         THEN [ok |-> FALSE, slices |-> slices, newaxes |-> newaxes]
         ELSE expand_loop_lenient(rank, nondotted, slices_raw, i + 1,
                                  slices \o [k \in 1 .. rank - nondotted |-> Full],
                                  newaxes \o [k \in 1 .. rank - nondotted |-> 0],
                                  TRUE)
    ELSE IF slices_raw[i].kind = "NewAxis"
    THEN expand_loop_lenient(rank, nondotted, slices_raw, i + 1, slices,
                             [newaxes EXCEPT ![Len(newaxes)] = @ + 1],
                             ellipsis_found)
    ELSE expand_loop_lenient(rank, nondotted, slices_raw, i + 1,
                             Append(slices, slices_raw[i]), Append(newaxes, 0),
                             ellipsis_found)

\* A faulty expand_loop: a NewAxis is counted at the front, newaxes[0],
\* instead of at the current position.
RECURSIVE expand_loop_front(_, _, _, _, _, _, _)
expand_loop_front(rank, nondotted, slices_raw, i, slices, newaxes, ellipsis_found) ==
    IF i > Len(slices_raw)
    THEN [ok |-> TRUE, slices |-> slices, newaxes |-> newaxes]
    ELSE IF slices_raw[i].kind = "Ellipsis"
    THEN IF ellipsis_found \/ rank < nondotted
         THEN [ok |-> FALSE, slices |-> slices, newaxes |-> newaxes]
         ELSE expand_loop_front(rank, nondotted, slices_raw, i + 1,
                                slices \o [k \in 1 .. rank - nondotted |-> Full],
                                newaxes \o [k \in 1 .. rank - nondotted |-> 0],
                                TRUE)
    ELSE IF slices_raw[i].kind = "NewAxis"
    THEN expand_loop_front(rank, nondotted, slices_raw, i + 1, slices,
                           [newaxes EXCEPT ![1] = @ + 1], ellipsis_found)
    ELSE expand_loop_front(rank, nondotted, slices_raw, i + 1,
                           Append(slices, slices_raw[i]), Append(newaxes, 0),
                           ellipsis_found)

RECURSIVE expand_loop(_, _, _, _, _, _, _)
expand_loop(rank, nondotted, slices_raw, i, slices, newaxes, ellipsis_found) ==
    IF i > Len(slices_raw)
    THEN [ok |-> TRUE, slices |-> slices, newaxes |-> newaxes]
    ELSE IF slices_raw[i].kind = "Ellipsis"
    THEN IF ellipsis_found \/ rank < nondotted
         THEN [ok |-> FALSE, slices |-> slices, newaxes |-> newaxes]
         ELSE expand_loop(rank, nondotted, slices_raw, i + 1,
                          slices \o [k \in 1 .. rank - nondotted |-> Full],
                          newaxes \o [k \in 1 .. rank - nondotted |-> 0],
                          TRUE)
    ELSE IF slices_raw[i].kind = "NewAxis"
    THEN expand_loop(rank, nondotted, slices_raw, i + 1, slices,
                     [newaxes EXCEPT ![Len(newaxes)] = @ + 1],
                     ellipsis_found)
    ELSE expand_loop(rank, nondotted, slices_raw, i + 1,
                     Append(slices, slices_raw[i]), Append(newaxes, 0),
                     ellipsis_found)

\* while v.len() < n { v.push(x) }
pad(v, n, x) == v \o [k \in 1 .. n - Len(v) |-> x]

expand_slices(self, slices_raw) ==
    LET rank == Len(self.shape)
        r == expand_loop(rank, count_nondotted(slices_raw), slices_raw, 1,
                         <<>>, <<0>>, FALSE)
        slices == pad(r.slices, rank, Full)
        newaxes == pad(r.newaxes, rank + 1, 0)
    IN  IF ~r.ok \/ Len(slices) # rank
        THEN [ok |-> FALSE, dbg |-> FALSE, slices |-> <<>>, newaxes |-> <<>>]
        ELSE [ok |-> TRUE, dbg |-> Len(newaxes) # rank + 1,
              slices |-> slices, newaxes |-> newaxes]

\* the (st, en, keepdim) of one axis
axis_range(self, axis, s) ==
    CASE s.kind = "Index" ->
            LET idx == resolve_axis(self, axis, s.a)
            IN  [st |-> idx, en |-> idx + 1, keepdim |-> FALSE,
                 dbg |-> AddOvf(idx, 1)]
      [] s.kind = "Full" ->
            [st |-> 0, en |-> self.shape[axis], keepdim |-> TRUE,
             dbg |-> FALSE]
      [] s.kind = "Slice" ->
            [st |-> resolve_axis(self, axis, s.a),
             en |-> resolve_axis(self, axis, s.b), keepdim |-> TRUE,
             dbg |-> FALSE]
      [] s.kind = "SliceTo" ->
            [st |-> 0, en |-> resolve_axis(self, axis, s.b),
             keepdim |-> TRUE, dbg |-> FALSE]
      [] s.kind = "SliceFrom" ->
            [st |-> resolve_axis(self, axis, s.a), en |-> self.shape[axis],
             keepdim |-> TRUE, dbg |-> FALSE]

\* A faulty slice_shape: an axis selected by Index keeps a length-1 axis.
RECURSIVE slice_shape_keep(_, _, _, _)
slice_shape_keep(ranges, newaxes, axis, shape) ==
    IF axis > Len(ranges) THEN shape
    ELSE slice_shape_keep(ranges, newaxes, axis + 1,
                          shape
                          \o <<ranges[axis].en - ranges[axis].st>>
                          \o [k \in 1 .. newaxes[axis + 1] |-> 1])

\* the shape pushed while walking the axes: the kept extents and the new axes
RECURSIVE slice_shape(_, _, _, _)
slice_shape(ranges, newaxes, axis, shape) ==
    IF axis > Len(ranges) THEN shape
    ELSE slice_shape(ranges, newaxes, axis + 1,
                     shape
                     \o (IF ranges[axis].keepdim
                         THEN <<ranges[axis].en - ranges[axis].st>>
                         ELSE <<>>)
                     \o [k \in 1 .. newaxes[axis + 1] |-> 1])

\* for si in 0..strides.len() { index += strides[si] * indices[si]; }
RECURSIVE slice_offset(_, _, _, _, _)
slice_offset(ss, indices, si, index, dbg) ==
    IF si > Len(ss) THEN [val |-> index, dbg |-> dbg]
    ELSE slice_offset(ss, indices, si + 1, index + ss[si] * indices[si],
                      dbg \/ MulOvf(ss[si], indices[si])
                          \/ AddOvf(index, ss[si] * indices[si]))

\* A faulty slice_carry: the carry resets indices[c] and forgets
\* index -= dims[c] * strides[c].
RECURSIVE slice_carry_noreset(_, _, _, _, _, _, _)
slice_carry_noreset(ss, ranges, dims, c, index, indices, dbg) ==
    IF ULe(ranges[c].en, indices[c]) /\ c # 1
    THEN slice_carry_noreset(ss, ranges, dims, c - 1, index + ss[c - 1],
                             [indices EXCEPT ![c] = ranges[c].st,
                                             ![c - 1] = @ + 1],
                             dbg \/ AddOvf(index, ss[c - 1])
                                 \/ AddOvf(indices[c - 1], 1))
    ELSE [index |-> index, indices |-> indices, dbg |-> dbg]

\* while indices[c] >= ranges[c].1 { if c == 0 { break; } ... c -= 1; }
RECURSIVE slice_carry(_, _, _, _, _, _, _)
slice_carry(ss, ranges, dims, c, index, indices, dbg) ==
    IF ULe(ranges[c].en, indices[c]) /\ c # 1
    THEN LET back == dims[c] * ss[c]
         IN  slice_carry(ss, ranges, dims, c - 1,
                         (index - back) + ss[c - 1],
                         [indices EXCEPT ![c] = ranges[c].st,
                                         ![c - 1] = @ + 1],
                         dbg \/ MulOvf(dims[c], ss[c])
                             \/ SubOvf(index, back)
                             \/ AddOvf(index - back, ss[c - 1])
                             \/ AddOvf(indices[c - 1], 1))
    ELSE [index |-> index, indices |-> indices, dbg |-> dbg]

\* for _ in 0..t.data.len() { ... base_i += 1; }
RECURSIVE slice_copy(_, _, _, _, _, _, _, _, _)
slice_copy(self, ss, ranges, dims, n, index, indices, out, dbg) ==
    IF Len(out) >= n THEN [ok |-> TRUE, dbg |-> dbg, data |-> out]
    ELSE IF Len(ss) = 0 \/ index < 0 \/ index >= Len(self.data)
    THEN [ok |-> FALSE, dbg |-> dbg, data |-> out]
    ELSE LET c == Len(ss)
             r == slice_carry(ss, ranges, dims, c, index + ss[c],
                              [indices EXCEPT ![c] = @ + ss[c]],
                              dbg \/ AddOvf(index, ss[c])
                                  \/ AddOvf(indices[c], ss[c]))
         IN  slice_copy(self, ss, ranges, dims, n, r.index, r.indices,
                        Append(out, self.data[index + 1]), r.dbg)

slice(self, slices_raw) ==
    LET e == expand_slices(self, slices_raw)
    IN  IF ~e.ok THEN Panic
        ELSE
        LET n == Len(e.slices)
            ranges == [axis \in 1 .. n |-> axis_range(self, axis, e.slices[axis])]
            dims == [axis \in 1 .. n |-> ranges[axis].en - ranges[axis].st]
            indices == [axis \in 1 .. n |-> ranges[axis].st]
            shape == slice_shape(ranges, e.newaxes, 1,
                                 [k \in 1 .. e.newaxes[1] |-> 1])
            dbg0 == e.dbg \/ \E axis \in 1 .. n :
                                 \/ ranges[axis].dbg
                                 \/ SubOvf(ranges[axis].en, ranges[axis].st)
            z == zeros(dims)
        IN  IF ~z.ok THEN Panic
            ELSE
            LET ss == strides(self)
                index == slice_offset(ss.val, indices, 1, 0, FALSE)
                cp == slice_copy(self, ss.val, ranges, dims, Len(z.t.data),
                                 index.val, indices, <<>>,
                                 dbg0 \/ z.dbg \/ ss.dbg \/ index.dbg)
            IN  IF ~cp.ok THEN Panic
                ELSE LET r == reshaped(Tensor(cp.data, dims), shape)
                     IN  [r EXCEPT !.dbg = @ \/ cp.dbg]

---------------------------------------------------------------------------
(* Axis permutation *)

\* t[&ii] = v: bounds-checks each axis against the shape, then writes at
\* ravel_index(ii)
index_set(self, ii, v) ==
    LET off == ravel_index(self, ii)
    IN  IF ~off.ok THEN Panic
        ELSE IF \E k \in 1 .. Len(ii) : ~ULt(ii[k], self.shape[k]) THEN Panic
        ELSE IF off.val < 0 \/ off.val >= Len(self.data) THEN Panic
        ELSE [ok |-> TRUE, dbg |-> off.dbg,
              t |-> [self EXCEPT !.data[off.val + 1] = v]]

\* A faulty swap: nothing is exchanged.
swap_none(v, a, b) == v

\* let s = v[a]; v[a] = v[b]; v[b] = s;
swap(v, a, b) == [v EXCEPT ![a] = v[b], ![b] = v[a]]

\* for i in 0..self.size() { ... t[&ii] = self.data[i]; }
RECURSIVE swapaxes_loop(_, _, _, _, _, _)
swapaxes_loop(self, tt, axis1, axis2, i, dbg) ==
    IF i >= size(self) THEN [ok |-> TRUE, dbg |-> dbg, t |-> tt]
    ELSE LET ii == unravel_index(self, i)
         IN  IF ~ii.ok THEN Panic
             ELSE LET w == index_set(tt, swap(ii.val, axis1 + 1, axis2 + 1),
                                     self.data[i + 1])
                  IN  IF ~w.ok THEN Panic
                      ELSE swapaxes_loop(self, w.t, axis1, axis2, i + 1,
                                         dbg \/ ii.dbg \/ w.dbg)

swapaxes(self, axis1, axis2) ==
    IF ~(axis1 < ndim(self)) \/ ~(axis2 < ndim(self)) \/ axis1 = axis2
    THEN Panic
    ELSE LET ss == strides(self)
             z == zeros(swap(self.shape, axis1 + 1, axis2 + 1))
         IN  IF ~z.ok THEN Panic
             ELSE swapaxes_loop(self, z.t, axis1, axis2, 0, ss.dbg \/ z.dbg)

transpose(self) ==
    IF ndim(self) # 2 THEN Panic ELSE swapaxes(self, 0, 1)

---------------------------------------------------------------------------
(* Inputs *)

SeqsOfLen(S, n) == [1 .. n -> S]

SeqsUpTo(S, n) == UNION {SeqsOfLen(S, k) : k \in 0 .. n}

Idx == -MaxIdx .. MaxIdx

AxisIndexAll ==
    {Full, Ellipsis, NewAxis}
    \cup {Index(i) : i \in Idx}
    \cup {Slice(a, b) : a \in Idx, b \in Idx}
    \cup {SliceFrom(a) : a \in Idx}
    \cup {SliceTo(b) : b \in Idx}

AxisIndexCore ==
    {Full, Ellipsis, NewAxis, Index(-1), Slice(1, MaxIdx), SliceTo(-1)}

\* the three calls of slice's documentation
DocSlices ==
    {<<Ellipsis, Slice(1, 3)>>, <<Index(-1)>>,
     <<Full, SliceFrom(1), Index(1)>>}

\* an Ellipsis before or after one consuming entry more than there are axes
Overfull(rank) ==
    {<<Ellipsis>> \o s : s \in SeqsOfLen({Full, Index(0)}, rank + 1)}
    \cup {s \o <<Ellipsis>> : s \in SeqsOfLen({Full, Index(0)}, rank + 1)}

\* The specifications tried on a tensor of the given rank: every single
\* entry, the three of the documentation, every sequence over
\* AxisIndexCore with at most one entry more than the tensor has axes, and
\* the overfull ones with an Ellipsis.
RawSlices(rank) ==
    SeqsOfLen(AxisIndexAll, 1)
    \cup SeqsUpTo(AxisIndexCore, rank + 1)
    \cup Overfull(rank)
    \cup DocSlices

\* the shape of slice's documentation
DocShape == <<2, 3, 4>>

ShapesIn == SeqsUpTo(0 .. MaxDim, MaxRank)

ReqShapes == SeqsUpTo(-MaxNeg .. MaxDim, MaxRank)

---------------------------------------------------------------------------
(* The program: it constructs a tensor t, then calls one operation at a   *)
(* time and goes on with the tensor the call returned.  `last` records    *)
(* the call: its receiver, its argument, whether it returned, and what it *)
(* returned when that is not a tensor.  A call that panics ends the       *)
(* program.  last.op is "start" before the constructor and "none"         *)
(* between two calls.  Two calls are also chained on the value just       *)
(* returned, t.transpose().transpose() and                                *)
(* t.ravel_index(&t.unravel_index(k)); last.chained and last.from then    *)
(* record the first call's receiver resp. flat index.                     *)

NoCall == [op |-> "none", self |-> empty, arg |-> <<>>, ok |-> TRUE,
           out |-> <<>>, chained |-> FALSE, from |-> <<>>]

Start == [NoCall EXCEPT !.op = "start"]

\* a call returns unless it panics, or overflows in a debug build
Returns(res) == res.ok /\ ~(debug_build /\ res.dbg)

InModel(tt) == \A k \in 1 .. Len(tt.shape) : tt.shape[k] \in -MaxAbs .. MaxAbs

\* a call that returns a tensor
Return(op, arg, res) ==
    /\ Returns(res) => InModel(res.t)
    /\ last' = [op |-> op, self |-> t, arg |-> arg, ok |-> Returns(res),
                out |-> <<>>,
                chained |-> last.op = op,
                from |-> IF last.op = op THEN last.self ELSE <<>>]
    /\ t' = IF Returns(res) THEN res.t ELSE t
    /\ UNCHANGED debug_build

\* a constructor: the program's first call
Construct(op, arg, res) == Return(op, arg, res)

\* a method that returns a tensor
Call(op, arg, res) == Return(op, arg, res)

\* a method that returns a value and leaves the tensor alone
Query(op, arg, res) ==
    /\ last' = [op |-> op, self |-> t, arg |-> arg, ok |-> Returns(res),
                out |-> IF Returns(res) THEN res.val ELSE <<>>,
                chained |-> last.op = "unravel_index",
                from |-> IF last.op = "unravel_index" THEN last.arg ELSE <<>>]
    /\ UNCHANGED <<debug_build, t>>

Done(tt) == [ok |-> TRUE, dbg |-> FALSE, t |-> tt]

AtStart == last.op = "start"

Ready == last.op = "none"

Init ==
    /\ debug_build \in BOOLEAN
    /\ t = empty
    /\ last = Start

Empty == AtStart /\ Construct("empty", <<>>, Done(empty))

New == /\ AtStart
       /\ \E data \in SeqsUpTo(0 .. MaxElem, MaxNew) :
              Construct("new", data, Done(new(data)))

Range == /\ AtStart
         /\ \E n \in 0 .. MaxRange : Construct("range", n, Done(range(n)))

Filled == /\ AtStart
          /\ \E shape \in ShapesIn, v \in 0 .. MaxElem :
                 Construct("filled", <<shape, v>>, filled(shape, v))

Zeros == /\ AtStart
         /\ \E shape \in ShapesIn : Construct("zeros", shape, zeros(shape))

Ones == /\ AtStart
        /\ \E shape \in ShapesIn : Construct("ones", shape, ones(shape))

\* let t = DoubleTensor::ones(&[2, 3, 4]);
DocOnes == AtStart /\ Construct("ones", DocShape, ones(DocShape))

Eye == /\ AtStart
       /\ \E n \in 0 .. MaxEye : Construct("eye", n, eye(n))

Flatten == Ready /\ Call("flatten", <<>>, Done(flatten(t)))

Clone == Ready /\ Call("clone", <<>>, Done(clone(t)))

Reshaped == /\ Ready
            /\ \E shape \in ReqShapes :
                   Call("reshaped", shape, reshaped(t, shape))

SliceCall == /\ Ready
             /\ \E raw \in RawSlices(ndim(t)) :
                    Call("slice", raw, slice(t, raw))

Swapaxes == /\ Ready
            /\ \E axis1 \in 0 .. MaxRank, axis2 \in 0 .. MaxRank :
                   Call("swapaxes", <<axis1, axis2>>,
                        swapaxes(t, axis1, axis2))

\* t.transpose(), also on the tensor a transpose has just returned
Transpose ==
    /\ Ready \/ (last.op = "transpose" /\ last.ok /\ ~last.chained)
    /\ Call("transpose", <<>>, transpose(t))

Strides == /\ Ready
           /\ Query("strides", <<>>, [ok |-> TRUE, dbg |-> strides(t).dbg,
                                      val |-> strides(t).val])

UnravelIndex == /\ Ready
                /\ \E index \in 0 .. MaxFlat :
                       Query("unravel_index", index, unravel_index(t, index))

\* t.ravel_index(&ii), also on the multi-index an unravel_index has just
\* returned
RavelIndex ==
    \/ /\ Ready
       /\ \E ii \in SeqsUpTo(0 .. MaxDim, ndim(t)) :
              Query("ravel_index", ii, ravel_index(t, ii))
    \/ /\ last.op = "unravel_index" /\ last.ok
       /\ Query("ravel_index", last.out, ravel_index(t, last.out))

\* The call is over: its receiver and argument go out of scope, the program
\* goes on with t.  The tensor a slice returned is not used further.
Drop ==
    /\ last.op \notin {"start", "none", "slice"}
    /\ last.ok
    /\ last' = NoCall
    /\ UNCHANGED <<debug_build, t>>

Next ==
    \/ Empty \/ New \/ Range \/ Filled \/ Zeros \/ Ones \/ DocOnes \/ Eye
    \/ Flatten \/ Clone \/ Reshaped \/ SliceCall \/ Swapaxes \/ Transpose
    \/ Strides \/ UnravelIndex \/ RavelIndex
    \/ Drop

\* the program without slice
NextShape ==
    \/ Empty \/ New \/ Range \/ Filled \/ Zeros \/ Ones \/ Eye
    \/ Flatten \/ Clone \/ Reshaped \/ Swapaxes \/ Transpose
    \/ Strides \/ UnravelIndex \/ RavelIndex
    \/ Drop

\* the program that builds a tensor, shapes it and slices it
NextSlice ==
    \/ Range \/ DocOnes \/ Reshaped \/ SliceCall \/ Drop

Spec == Init /\ [][Next]_vars

SpecShape == Init /\ [][NextShape]_vars

SpecSlice == Init /\ [][NextSlice]_vars

---------------------------------------------------------------------------
(* What the properties speak of, stated without the code: mathematical     *)
(* integers, signed resolved indices, the row-major layout.                *)

\* the product of a shape as a mathematical integer
RECURSIVE Product(_)
Product(S) == IF S = <<>> THEN 1 ELSE Head(S) * Product(Tail(S))

\* A tensor of the data model: every axis length fits isize (slice casts it
\* with `as isize`) and data.len() is the product of the shape.
IsTensor(tt) ==
    /\ \A k \in DOMAIN tt.shape : tt.shape[k] >= 0
    /\ Len(tt.data) = Product(tt.shape)

\* data.len() == product(shape) on the unsigned values: a product with a
\* zero factor is 0, one with no zero and a factor near 2^64 exceeds any
\* length
DataLenIsProduct(tt) ==
    IF \E k \in DOMAIN tt.shape : tt.shape[k] = 0
    THEN Len(tt.data) = 0
    ELSE IsTensor(tt)

NumOf(raw, kind) == Cardinality({i \in DOMAIN raw : raw[i].kind = kind})

\* the axis-consuming entries of a specification, in order
Consuming(raw) ==
    SelectSeq(raw, LAMBDA s : s.kind \notin {"Ellipsis", "NewAxis"})

Fulls(n) == [k \in 1 .. n |-> Full]

Ones1(n) == [k \in 1 .. n |-> 1]

\* The selection of each of the R source axes: the consuming entries, an
\* Ellipsis standing for the axes they leave over, trailing axes Full.
AxesOf(raw, R) ==
    LET m == R - Len(Consuming(raw))
    IN  IF NumOf(raw, "Ellipsis") = 0 THEN Consuming(raw) \o Fulls(m)
        ELSE LET e == CHOOSE i \in DOMAIN raw : raw[i].kind = "Ellipsis"
             IN  Consuming(SubSeq(raw, 1, e - 1)) \o Fulls(m)
                 \o Consuming(SubSeq(raw, e + 1, Len(raw)))

\* the number of source axes the entries before position i stand for
AxesBefore(raw, R, i) ==
    Len(Consuming(SubSeq(raw, 1, i - 1)))
    + (IF \E j \in 1 .. i - 1 : raw[j].kind = "Ellipsis"
       THEN R - Len(Consuming(raw)) ELSE 0)

\* insertions[k], k = 0 .. R: the NewAxis entries just before source axis k
InsertionsOf(raw, R) ==
    [k \in 1 .. R + 1 |->
        Cardinality({i \in DOMAIN raw : /\ raw[i].kind = "NewAxis"
                                        /\ AxesBefore(raw, R, i) = k - 1})]

\* negative-index resolution on signed integers
Resolve(dim, i) == IF i < 0 THEN dim + i ELSE i

\* the resolved range <<start, end>> an entry selects on an axis of length dim
RangeOf(dim, s) ==
    CASE s.kind = "Index" -> <<Resolve(dim, s.a), Resolve(dim, s.a) + 1>>
      [] s.kind = "Full" -> <<0, dim>>
      [] s.kind = "Slice" -> <<Resolve(dim, s.a), Resolve(dim, s.b)>>
      [] s.kind = "SliceFrom" -> <<Resolve(dim, s.a), dim>>
      [] s.kind = "SliceTo" -> <<0, Resolve(dim, s.b)>>

RangesOf(self, raw) ==
    LET ax == AxesOf(raw, ndim(self))
    IN  [k \in 1 .. ndim(self) |-> RangeOf(self.shape[k], ax[k])]

\* the specification names each source axis at most once
Accepted(self, raw) ==
    NumOf(raw, "Ellipsis") <= 1 /\ Len(Consuming(raw)) <= ndim(self)

\* 0 <= start_k <= end_k <= shape[k] on every axis
InBounds(self, raw) ==
    LET r == RangesOf(self, raw)
    IN  \A k \in 1 .. ndim(self) :
            0 <= r[k][1] /\ r[k][1] <= r[k][2] /\ r[k][2] <= self.shape[k]

\* an Index outside [0, dim), or a range endpoint outside [0, dim]
OutOfBounds(self, raw) ==
    LET r == RangesOf(self, raw)
        ax == AxesOf(raw, ndim(self))
    IN  \E k \in 1 .. ndim(self) :
            \/ r[k][1] < 0 \/ r[k][1] > self.shape[k]
            \/ r[k][2] < 0 \/ r[k][2] > self.shape[k]
            \/ ax[k].kind = "Index" /\ r[k][1] >= self.shape[k]

\* the row-major position of the multi-index ii in a tensor of this shape
RECURSIVE FlatIndex(_, _)
FlatIndex(shape, ii) ==
    IF ii = <<>> THEN 0
    ELSE FlatIndex(SubSeq(shape, 1, Len(shape) - 1), SubSeq(ii, 1, Len(ii) - 1))
         * shape[Len(shape)] + ii[Len(ii)]

\* the multi-index of the row-major position p in a tensor of shape dims
RECURSIVE MultiIndex(_, _)
MultiIndex(dims, p) ==
    IF dims = <<>> THEN <<>>
    ELSE Append(MultiIndex(SubSeq(dims, 1, Len(dims) - 1), p \div dims[Len(dims)]),
                p % dims[Len(dims)])

\* the selected hyper-rectangle, laid out in row-major order
Selected(self, raw) ==
    LET r == RangesOf(self, raw)
        dims == [k \in 1 .. ndim(self) |-> r[k][2] - r[k][1]]
    IN  [p \in 1 .. Product(dims) |->
            LET j == MultiIndex(dims, p - 1)
            IN  self.data[FlatIndex(self.shape,
                                    [k \in 1 .. ndim(self) |-> r[k][1] + j[k]])
                          + 1]]

\* the result shape, walking the source axes in order
RECURSIVE WalkAxes(_, _, _, _)
WalkAxes(ax, r, ins, k) ==
    IF k > Len(ax) THEN <<>>
    ELSE (IF ax[k].kind = "Index" THEN <<>> ELSE <<r[k][2] - r[k][1]>>)
         \o Ones1(ins[k + 1]) \o WalkAxes(ax, r, ins, k + 1)

ResultShape(self, raw) ==
    LET ins == InsertionsOf(raw, ndim(self))
    IN  Ones1(ins[1])
        \o WalkAxes(AxesOf(raw, ndim(self)), RangesOf(self, raw), ins, 1)

SumSeq(v) == LET RECURSIVE sum(_)
                 sum(i) == IF i > Len(v) THEN 0 ELSE v[i] + sum(i + 1)
             IN  sum(1)

---------------------------------------------------------------------------
(* Properties of slice, checked under SpecSlice *)

\* C1: for a tensor of rank >= 1 and a specification whose resolved ranges
\* lie within the axes (0 <= start_k <= end_k <= shape[k]), slice returns,
\* and its buffer is the selected hyper-rectangle in row-major order:
\* product(end_k - start_k) elements, the one at output position
\* ravel(j, dims) being the source element at (start_0 + j_0, ...); with
\* Full on every axis the result equals the tensor in shape and data.
C1_SliceCopiesHyperRectangle ==
    (/\ last.op = "slice"
     /\ ndim(last.self) >= 1
     /\ IsTensor(last.self)
     /\ Accepted(last.self, last.arg)
     /\ InBounds(last.self, last.arg))
    => /\ last.ok
       /\ t.data = Selected(last.self, last.arg)
       /\ (/\ AxesOf(last.arg, ndim(last.self)) = Fulls(ndim(last.self))
           /\ NumOf(last.arg, "NewAxis") = 0) => t = last.self

\* a proper sub-rectangle of a rank-2 tensor that starts inside a row and
\* spans two rows has been copied
C1_Witness ==
    /\ last.op = "slice" /\ last.ok
    /\ ndim(last.self) = 2
    /\ IsTensor(last.self)
    /\ Accepted(last.self, last.arg)
    /\ InBounds(last.self, last.arg)
    /\ RangesOf(last.self, last.arg)[2][1] > 0
    /\ RangesOf(last.self, last.arg)[1][2] - RangesOf(last.self, last.arg)[1][1] >= 2
    /\ Len(t.data) >= 2
    /\ t.data[1] # t.data[2]

\* C5: the shape of slice's result walks the source axes in order: Full,
\* Slice, SliceFrom and SliceTo contribute end - start, Index contributes
\* nothing, each NewAxis a length-1 axis at its position, so the rank is
\* R - #Index + #NewAxis; on shape [2,3,4], [Ellipsis, Slice(1,3)] gives
\* [2,3,2], [Index(-1)] gives [3,4], [Full, SliceFrom(1), Index(1)] [2,2].
C5_SliceResultShape ==
    /\ (last.op = "slice" /\ last.ok /\ ndim(last.self) >= 1)
       => /\ t.shape = ResultShape(last.self, last.arg)
          /\ ndim(t) = ndim(last.self) - NumOf(last.arg, "Index")
                       + NumOf(last.arg, "NewAxis")
    /\ (last.op = "slice" /\ last.self.shape = DocShape /\ IsTensor(last.self))
       => /\ last.arg = <<Ellipsis, Slice(1, 3)>>
             => last.ok /\ t.shape = <<2, 3, 2>>
          /\ last.arg = <<Index(-1)>>
             => last.ok /\ t.shape = <<3, 4>>
          /\ last.arg = <<Full, SliceFrom(1), Index(1)>>
             => last.ok /\ t.shape = <<2, 2>>

\* the third call of the documentation has returned shape [2, 2]
C5_Witness ==
    /\ last.op = "slice" /\ last.ok
    /\ last.self.shape = DocShape
    /\ last.arg = <<Full, SliceFrom(1), Index(1)>>
    /\ t.shape = <<2, 2>>

\* C6: slice fails for every specification with two or more Ellipsis, and
\* for every one with more axis-consuming entries than the tensor has axes,
\* with or without an Ellipsis.
C6_SliceRejectsMalformed ==
    (/\ last.op = "slice"
     /\ \/ NumOf(last.arg, "Ellipsis") >= 2
        \/ Len(Consuming(last.arg)) > ndim(last.self))
    => ~last.ok

\* a specification with one Ellipsis and one consuming entry too many has
\* been refused on a tensor of rank 2
C6_Witness ==
    /\ last.op = "slice" /\ ~last.ok
    /\ ndim(last.self) = 2
    /\ NumOf(last.arg, "Ellipsis") = 1
    /\ Len(Consuming(last.arg)) = 3

\* C10: when expand_slices accepts a specification for a tensor of rank R,
\* resolved_axes has length R and holds no Ellipsis and no NewAxis,
\* insertions has length R + 1, insertions[k] counts the NewAxis entries
\* just before source axis k (insertions[R] those after the last axis), and
\* they sum to the number of NewAxis entries; [NewAxis, Ellipsis, NewAxis]
\* on rank 2 gives two Full axes and insertions [1, 0, 1].
C10_ExpandSlicesOutput ==
    last.op = "slice" =>
        LET R == ndim(last.self)
            e == expand_slices(last.self, last.arg)
        IN  /\ e.ok =>
                /\ ~e.dbg
                /\ Len(e.slices) = R
                /\ \A k \in 1 .. R : e.slices[k].kind \notin {"Ellipsis", "NewAxis"}
                /\ e.slices = AxesOf(last.arg, R)
                /\ Len(e.newaxes) = R + 1
                /\ e.newaxes = InsertionsOf(last.arg, R)
                /\ SumSeq(e.newaxes) = NumOf(last.arg, "NewAxis")
            /\ (R = 2 /\ last.arg = <<NewAxis, Ellipsis, NewAxis>>) =>
                /\ e.ok
                /\ e.slices = <<Full, Full>>
                /\ e.newaxes = <<1, 0, 1>>

\* slice has expanded [NewAxis, Ellipsis, NewAxis] on a rank-2 tensor and
\* returned a tensor of rank 4
C10_Witness ==
    /\ last.op = "slice" /\ last.ok
    /\ ndim(last.self) = 2
    /\ last.arg = <<NewAxis, Ellipsis, NewAxis>>
    /\ t.shape = <<1>> \o last.self.shape \o <<1>>

\* C2: slice fails whenever, after negative-index resolution, an Index
\* resolves outside [0, dim) or an endpoint of Slice / SliceFrom / SliceTo
\* resolves outside the bounds of its axis, on every axis of a tensor of
\* any rank.
C2_SliceRejectsOutOfBounds ==
    (/\ last.op = "slice"
     /\ ndim(last.self) >= 1
     /\ IsTensor(last.self)
     /\ Accepted(last.self, last.arg)
     /\ OutOfBounds(last.self, last.arg))
    => ~last.ok

---------------------------------------------------------------------------
(* Properties of the shape and index functions, checked under SpecShape *)

\* the unsigned product of the explicit (non-wildcard) entries of a
\* requested shape: 0, a small number, or -1 for one at or beyond 2^63
ExplicitProduct(req) ==
    LET ex == SelectSeq(req, LAMBDA e : e # -1)
    IN  IF \E k \in DOMAIN ex : ex[k] = 0 THEN 0
        ELSE IF \E k \in DOMAIN ex : ex[k] < 0 THEN -1
        ELSE Product(ex)

Wildcards(req) == Cardinality({k \in DOMAIN req : req[k] = -1})

\* p divides the size n evenly
Divides(p, n) == p # 0 /\ (IF p < 0 THEN n = 0 ELSE n % p = 0)

\* the conditions under which reshaped has to fail
MustFail(self, req) ==
    \/ Wildcards(req) > 1
    \/ Wildcards(req) = 1 /\ ~Divides(ExplicitProduct(req), size(self))
    \/ Wildcards(req) = 0 /\ ExplicitProduct(req) # size(self)

\* the requested shape with the wildcard replaced
ConcreteShape(self, req) ==
    LET p == ExplicitProduct(req)
    IN  [k \in DOMAIN req |->
            IF req[k] # -1 THEN req[k]
            ELSE IF p < 0 THEN 0 ELSE size(self) \div p]

\* C7: reshaped fails if the requested shape has more than one wildcard,
\* if the product of the explicit axes does not evenly divide the size, or
\* if the resulting total does not equal the size; otherwise it returns
\* the same data with the concrete shape, the wildcard replaced by
\* size / product of the other axes.
C7_ReshapedValidates ==
    last.op = "reshaped" =>
        IF MustFail(last.self, last.arg) THEN ~last.ok
        ELSE /\ last.ok
             /\ t.data = last.self.data
             /\ t.shape = ConcreteShape(last.self, last.arg)

\* C8: for a rank-2 tensor, transpose returns a copy with the two shape
\* entries swapped and each source element (i, j) at position (j, i) of
\* the new shape, and t.transpose().transpose() equals t in shape and data.
C8_TransposeTwice ==
    (last.op = "transpose" /\ ndim(last.self) = 2 /\ IsTensor(last.self))
    => /\ last.ok
       /\ t.shape = <<last.self.shape[2], last.self.shape[1]>>
       /\ Len(t.data) = Len(last.self.data)
       /\ \A i \in 0 .. last.self.shape[1] - 1, j \in 0 .. last.self.shape[2] - 1 :
              t.data[j * last.self.shape[1] + i + 1]
                = last.self.data[i * last.self.shape[2] + j + 1]
       /\ last.chained => t = last.from

\* a 2 x 3 tensor of distinct elements has been transposed twice
C8_Witness ==
    /\ last.op = "transpose" /\ last.ok /\ last.chained
    /\ last.from.shape = <<2, 3>>
    /\ last.from.data = <<0, 1, 2, 3, 4, 5>>
    /\ last.self.data = <<0, 3, 1, 4, 2, 5>>
    /\ t = last.from

\* C9: for a shape S of rank >= 1 and a flat index k in [0, product(S)),
\* unravel_index returns and ravel_index of its result is k; the strides
\* both use are row-major: strides[last] = 1 and
\* strides[i] = strides[i+1] * S[i+1].
C9_RavelUnravel ==
    /\ (/\ last.op = "unravel_index"
        /\ ndim(last.self) >= 1 /\ IsTensor(last.self)
        /\ last.arg < Product(last.self.shape))
       => last.ok /\ Len(last.out) = ndim(last.self)
    /\ (/\ last.op = "ravel_index" /\ last.chained
        /\ ndim(last.self) >= 1 /\ IsTensor(last.self)
        /\ last.from < Product(last.self.shape))
       => last.ok /\ last.out = last.from
    /\ (last.op = "strides" /\ ndim(last.self) >= 1 /\ IsTensor(last.self))
       => /\ last.ok
          /\ Len(last.out) = ndim(last.self)
          /\ last.out[ndim(last.self)] = 1
          /\ \A i \in 1 .. ndim(last.self) - 1 :
                 last.out[i] = last.out[i + 1] * last.self.shape[i + 1]

\* the last flat index of a 2 x 3 tensor has gone through unravel_index
\* and ravel_index
C9_Witness ==
    /\ last.op = "ravel_index" /\ last.chained /\ last.ok
    /\ last.self.shape = <<2, 3>>
    /\ IsTensor(last.self)
    /\ last.arg = <<1, 2>>
    /\ last.from = 5
    /\ last.out = 5

---------------------------------------------------------------------------
(* Properties of every tensor the program holds, checked under Spec *)

\* C3: after any sequence of constructors and operations that does not
\* fail, every tensor produced satisfies data.len() == product(shape).
C3_DataLenIsProduct == DataLenIsProduct(t)

\* C4: a constructor given a non-empty shape, and flatten, reshaped with a
\* non-empty requested shape, slice, swapaxes, transpose and clone applied
\* to a tensor of rank >= 1, return a tensor of rank >= 1.
C4_RankAtLeastOne ==
    last.ok =>
        CASE last.op \in {"empty", "new", "range", "eye"} -> ndim(t) >= 1
          [] last.op \in {"zeros", "ones"} ->
                Len(last.arg) >= 1 => ndim(t) >= 1
          [] last.op = "filled" ->
                Len(last.arg[1]) >= 1 => ndim(t) >= 1
          [] last.op \in {"flatten", "slice", "swapaxes", "transpose", "clone"} ->
                ndim(last.self) >= 1 => ndim(t) >= 1
          [] last.op = "reshaped" ->
                (ndim(last.self) >= 1 /\ Len(last.arg) >= 1) => ndim(t) >= 1
          [] OTHER -> TRUE

====
